---- MODULE Spec2Model ----
(***************************************************************************)
(* Model of src/twisted/python/_setup.py: the ConditionalExtension         *)
(* descriptors, getSetupArgs() and the build_ext_twisted command           *)
(* (prepare_extensions, build_extensions, _compile_helper, _check_header). *)
(*                                                                         *)
(* Python objects are modelled with their identity: an extension is an     *)
(* object id into the heap `exts`, and its define_macros attribute is a    *)
(* reference into the heap of list objects `macros`, because               *)
(* prepare_extensions() mutates those lists in place.                      *)
(***************************************************************************)
EXTENDS Integers, Sequences, FiniteSets, TLC

\* ---------------------------------------------------------------- bounds
\* longest extension list handed to getSetupArgs()
MaxLen == 2
\* number of prepare_extensions() calls in one process
MaxCalls == 2

\* ------------------------------------------------- strings and platforms
\* sys.platform is kept as a sequence of characters so that startswith()
\* and == are computed, not assumed.
S_win32  == <<"w", "i", "n", "3", "2">>
S_linux  == <<"l", "i", "n", "u", "x">>
S_cygwin == <<"c", "y", "g", "w", "i", "n">>
S_sunos5 == <<"s", "u", "n", "o", "s", "5">>
S_sunos  == <<"s", "u", "n", "o", "s">>

\* str.startswith
StartsWith(s, prefix) ==
    /\ Len(s) >= Len(prefix)
    /\ SubSeq(s, 1, Len(prefix)) = prefix

\* the (os.name, sys.platform) pairs an interpreter reports
Platforms ==
    { [os_name |-> "nt",    sys_platform |-> S_win32],
      [os_name |-> "posix", sys_platform |-> S_linux],
      [os_name |-> "posix", sys_platform |-> S_cygwin],
      [os_name |-> "posix", sys_platform |-> S_sunos5] }

\* platform.python_implementation()
Implementations == {"CPython", "PyPy"}

\* the header the probing condition asks for
ProbeHeader == "sys/epoll.h"

\* ------------------------------------------------------------- macros
WIN32_MACRO          == <<"WIN32", 1>>
XOPEN_MACRO          == <<"_XOPEN_SOURCE", 1>>
XOPEN_EXTENDED_MACRO == <<"_XOPEN_SOURCE_EXTENDED", 1>>
\* a macro a caller put on an extension, or left on a builder
USER_MACRO           == <<"USER", 1>>

\* ------------------------------------------------------ extension pool
\* Object ids of the extension objects of the process.  1 and 2 are the
\* two entries of _EXTENSIONS; 3 and 4 are extensions a caller of
\* getSetupArgs(extensions=...) supplies.
ExtIds == 1 .. 4

\* id of the list object the caller passes as define_macros= to 3 and 4
CallerList == 5
ListIds == 1 .. 5

\* the list objects that exist before any extension is constructed
CallerLists == [l \in {CallerList} |-> <<USER_MACRO>>]

\* keyword arguments each extension object is constructed with
ExtKwargs(o) ==
    CASE o = 1 -> [sources |-> 1, condition |-> "isCPython"]
      [] o = 2 -> [sources |-> 2, libraries |-> 1,
                   condition |-> "isCPython_and_win32"]
      [] o = 3 -> [sources |-> 1, define_macros |-> CallerList,
                   optional |-> TRUE]
      [] o = 4 -> [sources |-> 1, define_macros |-> CallerList,
                   condition |-> "check_header"]

ExtName(o) ==
    CASE o = 1 -> "twisted.test.raiser"
      [] o = 2 -> "twisted.internet.iocpreactor.iocpsupport"
      [] o = 3 -> "test.always"
      [] o = 4 -> "test.probe"

\* setuptools.Extension.__init__ as called from ConditionalExtension: it
\* receives the keywords it is given, keeps the caller's define_macros list
\* object when that is non-empty and makes a fresh list otherwise.
Extension(name, kwargs, fresh) ==
    [ name          |-> name,
      init_kwargs   |-> DOMAIN kwargs,
      optional      |-> IF "optional" \in DOMAIN kwargs
                        THEN kwargs.optional ELSE FALSE,
      define_macros |-> IF /\ "define_macros" \in DOMAIN kwargs
                           /\ CallerLists[kwargs.define_macros] # <<>>
                        THEN kwargs.define_macros ELSE fresh ]

\* mutant: the keyword is read with get() and so stays in kwargs
ConditionalExtension_get(name, kwargs, fresh) ==
    [condition |-> IF "condition" \in DOMAIN kwargs
                   THEN kwargs.condition ELSE "lambda_true"]
        @@ Extension(name, kwargs, fresh)

\* ConditionalExtension.__init__: pop "condition", default lambda: True
ConditionalExtension(name, kwargs, fresh) ==
    LET rest == [k \in DOMAIN kwargs \ {"condition"} |-> kwargs[k]]
    IN  [condition |-> IF "condition" \in DOMAIN kwargs
                       THEN kwargs.condition ELSE "lambda_true"]
            @@ Extension(name, rest, fresh)

\* _EXTENSIONS, as the list of its two objects
_EXTENSIONS == <<1, 2>>

\* sequences over S of length at most n
SeqUpTo(S, n) == UNION { [1 .. k -> S] : k \in 0 .. n }

\* the lists getSetupArgs() is called with: the default or a caller's
ExtensionLists == {_EXTENSIONS} \cup SeqUpTo(ExtIds, MaxLen)

Range(s) == { s[i] : i \in DOMAIN s }

\* ---------------------------------------------------------------- state
VARIABLES
    os_name,                \* os.name
    sys_platform,           \* sys.platform
    python_implementation,  \* platform.python_implementation()
    _isCPython,              \* module global _isCPython
    headers,                \* headers the C compiler can include
    exts,                   \* heap of extension objects
    macros,                 \* heap of define_macros list objects
    prevMacros,             \* macros as it was when the last prepare began
    setupArgs,              \* what getSetupArgs() returned
    builder,                \* the current build_ext command object
    calls,                  \* prepare_extensions() calls so far
    evals,                  \* condition(...) calls so far
    lastOp                  \* the operation that ran last

vars == << os_name, sys_platform, python_implementation, _isCPython, headers,
           exts, macros, prevMacros, setupArgs, builder, calls, evals,
           lastOp >>

env == << os_name, sys_platform, python_implementation, _isCPython, headers >>

\* mutant: every interpreter counts as CPython
_checkCPython_always(impl) == TRUE

\* _checkCPython
_checkCPython(impl) == impl = "CPython"

NoSetupArgs ==
    [called |-> FALSE, arg |-> <<>>, ext_modules |-> <<>>,
     conditionalExtensions |-> <<>>]

NoBuilder ==
    [pc |-> "none", conditionalExtensions |-> <<>>, define_macros |-> <<>>,
     prior |-> <<>>, extensions |-> <<>>, results |-> <<>>, idx |-> 0,
     built |-> <<>>, failed |-> <<>>]

InitialMacros ==
    [l \in ListIds |-> IF l \in DOMAIN CallerLists THEN CallerLists[l]
                       ELSE <<>>]

Init ==
    /\ \E p \in Platforms :
          /\ os_name = p.os_name
          /\ sys_platform = p.sys_platform
    /\ python_implementation \in Implementations
    /\ _isCPython = _checkCPython(python_implementation)
    /\ headers \in {{}, {ProbeHeader}}
    /\ exts = [o \in ExtIds |-> ConditionalExtension(ExtName(o), ExtKwargs(o), o)]
    /\ macros = InitialMacros
    /\ prevMacros = InitialMacros
    /\ setupArgs = NoSetupArgs
    /\ builder = NoBuilder
    /\ calls = 0
    /\ evals = 0
    /\ lastOp = "import"


\* ------------------------------------------------- header probing
\* self.compiler.compile(["conftest.c"]) of a file that includes `header`
CompilerCompile(header) ==
    IF header \in headers THEN "ok" ELSE "CompileError"

\* mutant: the except clause answers True
_compile_helper_true(header) == TRUE

\* _compile_helper: CompileError is caught and answered with False
_compile_helper(header) ==
    IF CompilerCompile(header) = "CompileError" THEN FALSE ELSE TRUE

\* _check_header
_check_header(header) == _compile_helper(header)

\* x.condition(self) for the callables the extensions carry
Condition(c) ==
    CASE c = "lambda_true"         -> TRUE
      [] c = "isCPython"           -> _isCPython
      [] c = "isCPython_and_win32" -> _isCPython /\ sys_platform = S_win32
      [] c = "check_header"        -> _check_header(ProbeHeader)

\* ----------------------------------------------- prepare_extensions
\* mutant: the macros are appended to what the builder already had
define_macros_kept(prior) ==
    prior
      \o (IF os_name = "nt" THEN <<WIN32_MACRO>> ELSE <<>>)
      \o (IF StartsWith(sys_platform, S_sunos)
          THEN <<XOPEN_MACRO, XOPEN_EXTENDED_MACRO>> ELSE <<>>)

\* self.define_macros as prepare_extensions() sets it; `prior` is the value
\* the attribute had
define_macros(prior) ==
    (IF os_name = "nt" THEN <<WIN32_MACRO>> ELSE <<>>)
      \o (IF StartsWith(sys_platform, S_sunos)
          THEN <<XOPEN_MACRO, XOPEN_EXTENDED_MACRO>> ELSE <<>>)

\* the answers of x.condition(self), one per entry of conditionalExtensions
ConditionResults(ce) == [i \in 1 .. Len(ce) |-> Condition(exts[ce[i]].condition)]

RECURSIVE Filter(_, _, _)
Filter(ce, results, i) ==
    IF i > Len(ce) THEN <<>>
    ELSE (IF results[i] THEN <<ce[i]>> ELSE <<>>) \o Filter(ce, results, i + 1)

RECURSIVE Dedup(_, _)
Dedup(s, seen) ==
    IF s = <<>> THEN <<>>
    ELSE IF Head(s) \in seen THEN Dedup(Tail(s), seen)
    ELSE <<Head(s)>> \o Dedup(Tail(s), seen \cup {Head(s)})

\* mutant: an extension listed twice is selected once
extensions_unique(ce, results) == Dedup(Filter(ce, results, 1), {})

\* [x for x in self.conditionalExtensions if x.condition(self)]
extensions(ce, results) == Filter(ce, results, 1)

\* ------------------------------------------------------ getSetupArgs
\* mutant: the conditions are applied already when the arguments are made
getSetupArgs_filtering(exts_arg) ==
    [ called                |-> TRUE,
      arg                   |-> exts_arg,
      ext_modules           |-> extensions(exts_arg,
                                    ConditionResults(exts_arg)),
      conditionalExtensions |-> exts_arg ]

\* getSetupArgs: "ext_modules" and my_build_ext.conditionalExtensions are
\* both the list it was given
getSetupArgs(exts_arg) ==
    [ called                |-> TRUE,
      arg                   |-> exts_arg,
      ext_modules           |-> exts_arg,
      conditionalExtensions |-> exts_arg ]

GetSetupArgs ==
    /\ ~ setupArgs.called
    /\ \E l \in ExtensionLists : setupArgs' = getSetupArgs(l)
    /\ lastOp' = "getSetupArgs"
    /\ UNCHANGED << env, exts, macros, prevMacros, builder, calls, evals >>

\* values a command object's define_macros may hold before the call
PriorMacros == { <<>>, <<USER_MACRO>> }

\* setup() instantiates cmdclass["build_ext"]; as build_ext.finalize_options
\* does, its extensions attribute starts as the distribution's ext_modules
NewBuilder ==
    /\ setupArgs.called
    /\ builder.pc \in {"none", "prepared", "done", "raised"}
    /\ calls < MaxCalls
    /\ \E prior \in PriorMacros :
          builder' = [ pc                    |-> "new",
                       conditionalExtensions |-> setupArgs.conditionalExtensions,
                       define_macros         |-> prior,
                       prior                 |-> <<>>,
                       extensions            |-> setupArgs.ext_modules,
                       results               |-> <<>>,
                       idx                   |-> 0,
                       built                 |-> <<>>,
                       failed                |-> <<>> ]
    /\ lastOp' = "my_build_ext"
    /\ UNCHANGED << env, exts, macros, prevMacros, setupArgs, calls, evals >>

RECURSIVE ExtendFrom(_, _, _, _)
ExtendFrom(m, sel, dm, i) ==
    IF i > Len(sel) THEN m
    ELSE LET l == exts[sel[i]].define_macros
         IN  ExtendFrom([m EXCEPT ![l] = m[l] \o dm], sel, dm, i + 1)

\* mutant: each list object is extended once
extend_define_macros_once(m, sel, dm) ==
    [l \in DOMAIN m |->
        IF \E i \in 1 .. Len(sel) : exts[sel[i]].define_macros = l
        THEN m[l] \o dm ELSE m[l]]

\* for ext in self.extensions: ext.define_macros.extend(self.define_macros)
extend_define_macros(m, sel, dm) == ExtendFrom(m, sel, dm, 1)

\* prepare_extensions() on command object b with the list heap m: the
\* command object and the heap it leaves
prepare_extensions(b, m) ==
    LET res == ConditionResults(b.conditionalExtensions)
        dm  == define_macros(b.define_macros)
        sel == extensions(b.conditionalExtensions, res)
    IN  [ builder |-> [b EXCEPT !.define_macros = dm,
                                !.prior         = b.define_macros,
                                !.results       = res,
                                !.extensions    = sel],
          macros  |-> extend_define_macros(m, sel, dm) ]

\* prepare_extensions() called on the command object
PrepareExtensions ==
    /\ builder.pc \in {"new", "prepared"}
    /\ calls < MaxCalls
    /\ LET r == prepare_extensions(builder, macros)
       IN  /\ builder' = [r.builder EXCEPT !.pc = "prepared"]
           /\ macros' = r.macros
    /\ prevMacros' = macros
    /\ calls' = calls + 1
    /\ evals' = evals + Len(builder.conditionalExtensions)
    /\ lastOp' = "prepare_extensions"
    /\ UNCHANGED << env, exts, setupArgs >>

\* --------------------------------------------------- build_extensions
\* build_extensions() up to its call of build_ext.build_extensions
build_extensions(b, m) == prepare_extensions(b, m)

BuildExtensions ==
    /\ builder.pc \in {"new", "prepared"}
    /\ calls < MaxCalls
    /\ LET r == build_extensions(builder, macros)
       IN  /\ builder' = [r.builder EXCEPT !.pc = "building", !.idx = 1,
                                           !.built = <<>>, !.failed = <<>>]
           /\ macros' = r.macros
    /\ prevMacros' = macros
    /\ calls' = calls + 1
    /\ evals' = evals + Len(builder.conditionalExtensions)
    /\ lastOp' = "build_extensions"
    /\ UNCHANGED << env, exts, setupArgs >>

\* build_ext.build_extensions compiles self.extensions in order; a
\* CompileError of an extension that is not optional is raised, and
\* build_extensions() has no handler for it
BaseBuildStep ==
    /\ builder.pc = "building"
    /\ builder.idx <= Len(builder.extensions)
    /\ LET x == builder.extensions[builder.idx]
       IN  \E outcome \in {"ok", "CompileError"} :
             builder' =
               IF outcome = "ok"
               THEN [builder EXCEPT !.built = Append(@, x), !.idx = @ + 1]
               ELSE IF exts[x].optional
               THEN [builder EXCEPT !.failed = Append(@, x), !.idx = @ + 1]
               ELSE [builder EXCEPT !.failed = Append(@, x), !.pc = "raised"]
    /\ lastOp' = "build_ext.build_extensions"
    /\ UNCHANGED << env, exts, macros, prevMacros, setupArgs, calls, evals >>

\* build_extensions() returns
BuildExtensionsReturn ==
    /\ builder.pc = "building"
    /\ builder.idx > Len(builder.extensions)
    /\ builder' = [builder EXCEPT !.pc = "done"]
    /\ lastOp' = "build_ext.build_extensions"
    /\ UNCHANGED << env, exts, macros, prevMacros, setupArgs, calls, evals >>

Next ==
    \/ GetSetupArgs
    \/ NewBuilder
    \/ PrepareExtensions
    \/ BuildExtensions
    \/ BaseBuildStep
    \/ BuildExtensionsReturn

Spec == Init /\ [][Next]_vars

TypeOK ==
    /\ calls \in 0 .. MaxCalls
    /\ builder.pc \in {"none", "new", "prepared", "building", "done", "raised"}


\* ------------------------------------------------------------ claims
\* prepare_extensions() has returned on the current command object
Prepared == builder.pc \in {"prepared", "building", "done", "raised"}

\* sel is the sub-list of ce at exactly the positions where res is true
IsSubListWhere(sel, ce, res) ==
    \E f \in [1 .. Len(sel) -> 1 .. Len(ce)] :
        /\ \A i, j \in 1 .. Len(sel) : i < j => f[i] < f[j]
        /\ \A i \in 1 .. Len(sel) : sel[i] = ce[f[i]]
        /\ { f[i] : i \in 1 .. Len(sel) } = { k \in 1 .. Len(ce) : res[k] }

\* C1: after prepare_extensions() returns, self.extensions is exactly the
\* sub-list of conditionalExtensions whose condition returned true, in the
\* same relative order and with the same multiplicity.
Thm_C1 ==
    Prepared =>
        /\ Len(builder.results) = Len(builder.conditionalExtensions)
        /\ IsSubListWhere(builder.extensions, builder.conditionalExtensions,
                          builder.results)

\* a two-entry list whose first condition was false and second true
Witness_C1 ==
    /\ Prepared
    /\ builder.results = <<FALSE, TRUE>>
    /\ builder.extensions = <<builder.conditionalExtensions[2]>>

\* C3: with the default _EXTENSIONS, raiser is selected iff the interpreter
\* is CPython, iocpsupport iff CPython on win32, and nothing is selected on
\* another interpreter.
Thm_C3 ==
    (Prepared /\ builder.conditionalExtensions = _EXTENSIONS) =>
        /\ (1 \in Range(builder.extensions))
              <=> (python_implementation = "CPython")
        /\ (2 \in Range(builder.extensions))
              <=> (python_implementation = "CPython" /\ sys_platform = S_win32)
        /\ (python_implementation # "CPython" => builder.extensions = <<>>)

\* CPython on a platform that is not win32: raiser alone is selected
Witness_C3 ==
    /\ Prepared
    /\ builder.conditionalExtensions = _EXTENSIONS
    /\ python_implementation = "CPython"
    /\ sys_platform = S_linux
    /\ builder.extensions = <<1>>

\* C4: an extension constructed without condition= is selected on every
\* platform and interpreter; one constructed with condition= stores that
\* callable; and "condition" never reaches Extension.__init__.
Thm_C4 ==
    \A o \in ExtIds :
        /\ "condition" \notin DOMAIN ExtKwargs(o) =>
              /\ exts[o].condition = "lambda_true"
              /\ Prepared =>
                    \A i \in 1 .. Len(builder.conditionalExtensions) :
                        builder.conditionalExtensions[i] = o =>
                            /\ builder.results[i]
                            /\ o \in Range(builder.extensions)
        /\ "condition" \in DOMAIN ExtKwargs(o) =>
              exts[o].condition = ExtKwargs(o).condition
        /\ "condition" \notin exts[o].init_kwargs

\* the extension without condition= is selected where every other is not
Witness_C4 ==
    /\ Prepared
    /\ python_implementation = "PyPy"
    /\ headers = {}
    /\ builder.conditionalExtensions = <<1, 3>>
    /\ builder.extensions = <<3>>

\* C5: after prepare_extensions() the builder's define_macros holds WIN32
\* iff os.name is "nt", the two _XOPEN_SOURCE macros iff sys.platform
\* starts with "sunos", nothing else, and nothing of its previous value.
Thm_C5 ==
    Prepared =>
        LET dm    == builder.define_macros
            nt    == os_name = "nt"
            sunos == StartsWith(sys_platform, S_sunos)
        IN  /\ (WIN32_MACRO \in Range(dm)) <=> nt
            /\ (XOPEN_MACRO \in Range(dm)) <=> sunos
            /\ (XOPEN_EXTENDED_MACRO \in Range(dm)) <=> sunos
            /\ (~ nt /\ ~ sunos) => dm = <<>>
            /\ Len(dm) = (IF nt THEN 1 ELSE 0) + (IF sunos THEN 2 ELSE 0)

\* a builder that held a macro before the call, on Solaris
Witness_C5 ==
    /\ Prepared
    /\ builder.prior = <<USER_MACRO>>
    /\ sys_platform = S_sunos5
    /\ builder.define_macros = <<XOPEN_MACRO, XOPEN_EXTENDED_MACRO>>


\* the base build has been entered on the current command object
InBaseBuild == builder.pc \in {"building", "done", "raised"}

Cex_C6 ==
    calls >= 1 =>
        \A o \in ExtIds :
            macros[exts[o].define_macros] = InitialMacros[exts[o].define_macros]

\* C7: getSetupArgs() hands on the list it was given, unfiltered, as
\* ext_modules and as conditionalExtensions; conditions are evaluated only
\* by prepare_extensions(), and the base build only ever sees the
\* extensions selected by it.
C7State ==
    /\ setupArgs.called =>
          /\ setupArgs.ext_modules = setupArgs.arg
          /\ setupArgs.conditionalExtensions = setupArgs.arg
    /\ calls = 0 => evals = 0
    /\ InBaseBuild =>
          /\ Len(builder.results) = Len(builder.conditionalExtensions)
          /\ IsSubListWhere(builder.extensions, builder.conditionalExtensions,
                            builder.results)
          /\ Range(builder.built) \cup Range(builder.failed)
                \subseteq Range(builder.extensions)

Thm_C7 ==
    /\ [] C7State
    /\ [][ evals' # evals =>
             lastOp' \in {"prepare_extensions", "build_extensions"} ]_vars

\* a finished build that compiled less than the list getSetupArgs() got
Witness_C7 ==
    /\ builder.pc = "done"
    /\ Len(builder.extensions) < Len(setupArgs.ext_modules)
    /\ builder.built # <<>>

\* number of entries of sel whose extension refers to list object l
RECURSIVE Repeat(_, _)
Repeat(s, n) == IF n = 0 THEN <<>> ELSE s \o Repeat(s, n - 1)

Refs(sel, l) ==
    Cardinality({ i \in 1 .. Len(sel) : exts[sel[i]].define_macros = l })

\* C8 (as stated): after prepare_extensions() each selected extension's
\* define_macros is its previous value followed by the builder's
\* define_macros, every other extension's is unchanged, and nothing else
\* changed.
Cex_C8 ==
    Prepared =>
        /\ \A o \in ExtIds :
              macros[exts[o].define_macros] =
                  IF o \in Range(builder.extensions)
                  THEN prevMacros[exts[o].define_macros] \o builder.define_macros
                  ELSE prevMacros[exts[o].define_macros]
        /\ builder.conditionalExtensions = setupArgs.conditionalExtensions

\* C8 (amended): after prepare_extensions() every define_macros list is
\* its previous content followed by the builder's define_macros once per
\* entry of self.extensions that refers to it; lists no selected entry
\* refers to, the extensions' other fields and conditionalExtensions are
\* unchanged.
Thm_C8 ==
    Prepared =>
        /\ \A l \in ListIds :
              macros[l] = prevMacros[l]
                  \o Repeat(builder.define_macros, Refs(builder.extensions, l))
        /\ exts = [o \in ExtIds |-> ConditionalExtension(ExtName(o), ExtKwargs(o), o)]
        /\ builder.conditionalExtensions = setupArgs.conditionalExtensions

\* an extension listed twice got the platform macros twice
Witness_C8 ==
    /\ Prepared
    /\ os_name = "nt"
    /\ builder.extensions = <<3, 3>>
    /\ macros[CallerList] = prevMacros[CallerList] \o <<WIN32_MACRO, WIN32_MACRO>>

====
